---- MODULE Spec2Model ----
(***************************************************************************)
(* The StaticHosting construct of lib/static-hosting.ts: its constructor   *)
(* reads a StaticHostingProps value and declares, statement by statement,  *)
(* a content bucket, an origin access identity, an optional publisher user *)
(* and group, an optional logging bucket, one CloudFront distribution, an  *)
(* optional invalidation policy, the stack outputs and an optional DNS     *)
(* alias record.  The model runs the constructor as a sequence of steps;   *)
(* the state is the props object, the constructor's locals and the         *)
(* constructs declared so far.                                             *)
(*                                                                         *)
(* An optional value (a `?:` property, or a local that may be undefined)   *)
(* is a sequence of length 0 (undefined) or 1 (the value).  A reference to *)
(* a construct is the construct's id.                                      *)
(***************************************************************************)
EXTENDS Naturals, Sequences, FiniteSets

VARIABLES
    pc,                 \* the statement of the constructor to run next
    props,              \* the caller's StaticHostingProps object
    siteName,           \* const siteName ("" until bound)
    distributionCnames, \* let distributionCnames (<<>> until bound)
    bucket,             \* const bucket: the 'ContentBucket' construct
    oai,                \* const oai: the 'OriginAccessIdentity' construct
    publisherUser,      \* const publisherUser: User | undefined
    publisherGroup,     \* const publisherGroup: Group | undefined
    loggingBucket,      \* const loggingBucket: Bucket | undefined
    loggingConfig,      \* const loggingConfig: { bucket } | undefined
    originConfigs,      \* let originConfigs: Array<SourceConfiguration>
    distribution,       \* const distribution: the 'BucketCdn' construct
    policies,           \* the Policy constructs declared
    zone,               \* const zone: the looked-up hosted zone
    aRecord,            \* the 'SiteAliasRecord' construct
    outputs,            \* the CfnOutput constructs declared
    grants              \* the grants made by grantRead/grantReadWrite/grantWrite

vars == <<pc, props, siteName, distributionCnames, bucket, oai, publisherUser,
          publisherGroup, loggingBucket, loggingConfig, originConfigs,
          distribution, policies, zone, aRecord, outputs, grants>>

-----------------------------------------------------------------------------
(* Bounds of the inputs. *)

\* The caller passes at most this many list elements in all (extra cnames,
\* custom origins and behaviors together).
MaxListItems == 2

\* The same, for the builds whose every behaviour is followed to its end.
MaxFairListItems == 1

-----------------------------------------------------------------------------
(* Optional values and JavaScript truthiness. *)

undefined == <<>>

Some(v) == <<v>>

IsDefined(o) == o # undefined

\* Truthiness of an optional boolean: undefined and false are falsy.
TruthyFlag(o) == IsDefined(o) /\ o[1] = TRUE

\* Truthiness of an optional string: undefined and "" are falsy.
TruthyString(o) == IsDefined(o) /\ o[1] # ""

\* Truthiness of an optional array or object: only undefined is falsy.
TruthyObject(o) == IsDefined(o)

\* The sequences over S of length at most n.
SeqUpTo(S, n) == UNION {[1..k -> S] : k \in 0..n}

Optional(S) == {undefined} \cup {Some(v) : v \in S}

-----------------------------------------------------------------------------
(* The inputs. *)

DomainNames == {"example.com"}

SubDomainNames == {"www", "docs"}

ZoneNames == {"", "example.com"}

ExtraCnames == {"alt.example.com", "example.com"}

\* Behavior objects a caller may pass; the first is equal to the built-in one.
SuppliedBehaviors == {[isDefaultBehavior |-> TRUE], [pathPattern |-> "/img/*"]}

\* SourceConfiguration objects a caller may pass.
CustomOrigins ==
    {[customOriginSource |-> [domainName |-> "api.example.com"],
      behaviors |-> <<[pathPattern |-> "/api/*"]>>],
     [customOriginSource |-> [domainName |-> "media.example.com"],
      behaviors |-> <<[pathPattern |-> "/media/*"]>>]}

\* The optional lists of a props object, as <<extraDistributionCnames,
\* customOriginConfigs, behaviors>>, with at most n elements in all.
OptionalLists(n) ==
    {l \in Optional(SeqUpTo(ExtraCnames, n))
            \X Optional(SeqUpTo(CustomOrigins, n))
            \X Optional(SeqUpTo(SuppliedBehaviors, n)) :
        LET Items(o) == IF IsDefined(o) THEN Len(o[1]) ELSE 0
        IN  Items(l[1]) + Items(l[2]) + Items(l[3]) <= n}

\* The optional flags, as <<createDnsRecord, createPublisherGroup,
\* createPublisherUser, enableCloudFrontAccessLogging>>.
OptionalFlags ==
    Optional(BOOLEAN) \X Optional(BOOLEAN) \X Optional(BOOLEAN) \X Optional(BOOLEAN)

\* The props objects with at most n list elements in all.
PropsWithin(n) ==
    {[domainName |-> d,
      subDomainName |-> sd,
      certificateArn |-> "arn:aws:acm:us-east-1:123456789012:certificate/abc",
      createDnsRecord |-> f[1],
      createPublisherGroup |-> f[2],
      createPublisherUser |-> f[3],
      extraDistributionCnames |-> l[1],
      enableCloudFrontAccessLogging |-> f[4],
      zoneName |-> z,
      customOriginConfigs |-> l[2],
      behaviors |-> l[3]] :
        d \in DomainNames, sd \in SubDomainNames, f \in OptionalFlags,
        z \in Optional(ZoneNames), l \in OptionalLists(n)}

StaticHostingProps == PropsWithin(MaxListItems)

-----------------------------------------------------------------------------
(* The constructor's environment as one record, and the pure helpers. *)

St ==
    [props |-> props, siteName |-> siteName,
     distributionCnames |-> distributionCnames, bucket |-> bucket, oai |-> oai,
     publisherUser |-> publisherUser, publisherGroup |-> publisherGroup,
     loggingBucket |-> loggingBucket, loggingConfig |-> loggingConfig,
     originConfigs |-> originConfigs, distribution |-> distribution,
     policies |-> policies, zone |-> zone, aRecord |-> aRecord,
     outputs |-> outputs, grants |-> grants]

\* The environment on entry to the constructor.
InitialState(p) ==
    [props |-> p, siteName |-> "", distributionCnames |-> <<>>,
     bucket |-> undefined, oai |-> undefined, publisherUser |-> undefined,
     publisherGroup |-> undefined, loggingBucket |-> undefined,
     loggingConfig |-> undefined, originConfigs |-> <<>>,
     distribution |-> undefined, policies |-> {}, zone |-> undefined,
     aRecord |-> undefined, outputs |-> {}, grants |-> {}]

\* An attribute of a declared construct, as the token CDK hands out for it.
Attr(id, name) == [ref |-> id, attr |-> name]

CfnOutput(id, description, value) ==
    [id |-> id, description |-> description, value |-> value]

Grant(principal, resource, access) ==
    [principal |-> principal, resource |-> resource, access |-> access]

SiteName_NoSeparator(p) == p.subDomainName \o p.domainName

\* `${props.subDomainName}.${props.domainName}`
SiteName(p) == p.subDomainName \o "." \o p.domainName

DistributionCnames_ExtrasFirst(p, siteNameArray) ==
    IF TruthyObject(p.extraDistributionCnames)
    THEN p.extraDistributionCnames[1] \o siteNameArray
    ELSE siteNameArray

\* (props.extraDistributionCnames) ? siteNameArray.concat(...) : siteNameArray
DistributionCnames(p, siteNameArray) ==
    IF TruthyObject(p.extraDistributionCnames)
    THEN siteNameArray \o p.extraDistributionCnames[1]
    ELSE siteNameArray

DefaultOriginBehaviors_EmptyIsUnset(p) ==
    IF TruthyObject(p.behaviors) /\ Len(p.behaviors[1]) > 0
    THEN p.behaviors[1]
    ELSE <<[isDefaultBehavior |-> TRUE]>>

\* props.behaviors ? props.behaviors : [{ isDefaultBehavior: true }]
DefaultOriginBehaviors(p) ==
    IF TruthyObject(p.behaviors)
    THEN p.behaviors[1]
    ELSE <<[isDefaultBehavior |-> TRUE]>>

ShouldCreateDnsRecord_ZoneDefined(p) ==
    TruthyFlag(p.createDnsRecord) /\ IsDefined(p.zoneName)

\* props.createDnsRecord && props.zoneName
ShouldCreateDnsRecord(p) ==
    TruthyFlag(p.createDnsRecord) /\ TruthyString(p.zoneName)

CloudFrontInvalidationPolicyStatement_AnyDistribution(d) ==
    [effect |-> "ALLOW",
     actions |-> <<"cloudfront:CreateInvalidation", "cloudfront:GetInvalidation",
                   "cloudfront:ListInvalidations">>,
     resources |-> <<[prefix |-> "arn:aws:cloudfront::*:distribution/",
                      distributionId |-> Attr("*", "distributionId")]>>]

\* The statement allowing invalidations on the distribution d.
CloudFrontInvalidationPolicyStatement(d) ==
    [effect |-> "ALLOW",
     actions |-> <<"cloudfront:CreateInvalidation", "cloudfront:GetInvalidation",
                   "cloudfront:ListInvalidations">>,
     resources |-> <<[prefix |-> "arn:aws:cloudfront::*:distribution/",
                      distributionId |-> Attr(d.id, "distributionId")]>>]

-----------------------------------------------------------------------------
(* The statements of the constructor, each a function of the environment. *)

\* const siteName, siteNameArray, let distributionCnames
BindSiteName(s) ==
    LET name == SiteName(s.props)
        siteNameArray == <<name>>
    IN  [s EXCEPT !.siteName = name,
                  !.distributionCnames = DistributionCnames(s.props, siteNameArray)]

\* new Bucket(this, 'ContentBucket', ...) and its output
ContentBucket(s) ==
    LET b == [id |-> "ContentBucket", bucketName |-> s.siteName,
              encryption |-> "S3_MANAGED", blockPublicAccess |-> "BLOCK_ALL"]
    IN  [s EXCEPT !.bucket = Some(b),
                  !.outputs = @ \cup {CfnOutput("Bucket", "BucketName",
                                                Attr(b.id, "bucketName"))}]

\* new OriginAccessIdentity(...); bucket.grantRead(oai)
OriginAccessIdentity(s) ==
    LET o == [id |-> "OriginAccessIdentity",
              comment |-> "Allow CloudFront to access S3"]
    IN  [s EXCEPT !.oai = Some(o),
                  !.grants = @ \cup {Grant(o.id, s.bucket[1].id, "Read")}]

\* new User(this, 'PublisherUser', ...) and its output
DeclarePublisherUser(s) ==
    LET u == [id |-> "PublisherUser", userName |-> "publisher-" \o s.siteName]
    IN  [s EXCEPT !.publisherUser = Some(u),
                  !.outputs = @ \cup {CfnOutput("PublisherUserName", "PublisherUser",
                                                Attr(u.id, "userName"))}]

PublisherUser_WithBucketAccess(s) ==
    IF TruthyFlag(s.props.createPublisherUser)
    THEN [DeclarePublisherUser(s) EXCEPT
              !.grants = @ \cup {Grant("PublisherUser", s.bucket[1].id, "ReadWrite")}]
    ELSE s

\* const publisherUser = (props.createPublisherUser) ? new User : undefined
PublisherUser(s) ==
    IF TruthyFlag(s.props.createPublisherUser)
    THEN DeclarePublisherUser(s)
    ELSE s

\* const publisherGroup, bucket.grantReadWrite(publisherGroup) and its output
PublisherGroup(s) ==
    IF TruthyFlag(s.props.createPublisherGroup)
    THEN LET g == [id |-> "PublisherGroup", users |-> {}]
         IN  [s EXCEPT !.publisherGroup = Some(g),
                       !.grants = @ \cup {Grant(g.id, s.bucket[1].id, "ReadWrite")},
                       !.outputs = @ \cup {CfnOutput("PublisherGroupName",
                                               "PublisherGroup",
                                               Attr(g.id, "groupName"))}]
    ELSE s

AddUser_Skipped(s) == s

\* if (publisherGroup) { ... if (publisherUser) publisherGroup.addUser(publisherUser) }
AddUser(s) ==
    IF TruthyObject(s.publisherGroup) /\ TruthyObject(s.publisherUser)
    THEN [s EXCEPT !.publisherGroup[1].users = @ \cup {s.publisherUser[1].id}]
    ELSE s

\* new Bucket(this, 'LoggingBucket', ...), loggingBucket.grantWrite(oai), its
\* output and the loggingConfig that names it
DeclareLoggingBucket(s) ==
    LET l == [id |-> "LoggingBucket",
              bucketName |-> s.siteName \o "-access-logs",
              encryption |-> "S3_MANAGED",
              blockPublicAccess |-> "BLOCK_ALL",
              removalPolicy |-> "RETAIN"]
    IN  [s EXCEPT !.loggingBucket = Some(l),
                  !.grants = @ \cup {Grant(s.oai[1].id, l.id, "Write")},
                  !.outputs = @ \cup {CfnOutput("LoggingBucketName", "CloudFront Logs",
                                                Attr(l.id, "bucketName"))},
                  !.loggingConfig = Some([bucket |-> l.id])]

LoggingBucket_OnUnlessFalse(s) ==
    IF s.props.enableCloudFrontAccessLogging # Some(FALSE)
    THEN DeclareLoggingBucket(s)
    ELSE s

\* const loggingBucket = (props.enableCloudFrontAccessLogging) ? new Bucket : undefined
LoggingBucket(s) ==
    IF TruthyFlag(s.props.enableCloudFrontAccessLogging)
    THEN DeclareLoggingBucket(s)
    ELSE s

\* The default origin pushed first: the content bucket through the identity.
DefaultOrigin(s) ==
    [s3OriginSource |-> [s3BucketSource |-> s.bucket[1].id,
                         originAccessIdentity |-> s.oai[1].id],
     behaviors |-> DefaultOriginBehaviors(s.props)]

OriginConfigs_InPlace(s) ==
    IF TruthyObject(s.props.customOriginConfigs)
    THEN LET all == <<DefaultOrigin(s)>> \o s.props.customOriginConfigs[1]
         IN  [s EXCEPT !.props.customOriginConfigs = Some(all),
                       !.originConfigs = all]
    ELSE [s EXCEPT !.originConfigs = <<DefaultOrigin(s)>>]

\* let originConfigs: the default origin, then the custom origins
OriginConfigs(s) ==
    LET pushed == Append(<<>>, DefaultOrigin(s))
    IN  [s EXCEPT !.originConfigs =
                      IF TruthyObject(s.props.customOriginConfigs)
                      THEN pushed \o s.props.customOriginConfigs[1]
                      ELSE pushed]

\* new CloudFrontWebDistribution(this, 'BucketCdn', ...)
Distribution(s) ==
    [s EXCEPT !.distribution =
        Some([id |-> "BucketCdn",
              aliasConfiguration |->
                  [acmCertRef |-> s.props.certificateArn,
                   names |-> s.distributionCnames,
                   securityPolicy |-> "TLS_V1_2_2018",
                   sslMethod |-> "SNI"],
              originConfigs |-> s.originConfigs,
              errorConfigurations |->
                  <<[errorCode |-> 404, errorCachingMinTtl |-> 0,
                     responseCode |-> 200,
                     responsePagePath |-> "/index.html"]>>,
              priceClass |-> "PRICE_CLASS_ALL",
              viewerProtocolPolicy |-> "REDIRECT_TO_HTTPS",
              loggingConfig |-> s.loggingConfig])]

\* if (publisherGroup) new Policy(this, 'CloudFrontInvalidationPolicy', ...)
InvalidationPolicy(s) ==
    IF TruthyObject(s.publisherGroup)
    THEN [s EXCEPT !.policies = @ \cup
              {[id |-> "CloudFrontInvalidationPolicy",
                groups |-> {s.publisherGroup[1].id},
                users |-> {},
                statements |->
                    <<CloudFrontInvalidationPolicyStatement(s.distribution[1])>>]}]
    ELSE s

\* the outputs 'DistributionId' and 'DistributionDomainName'
DistributionOutputs(s) ==
    [s EXCEPT !.outputs = @ \cup
        {CfnOutput("DistributionId", "DistributionId",
                   Attr(s.distribution[1].id, "distributionId")),
         CfnOutput("DistributionDomainName", "DistributionDomainName",
                   Attr(s.distribution[1].id, "domainName"))}]

\* if (props.createDnsRecord && props.zoneName) { fromLookup; new ARecord }
DnsRecord(s) ==
    IF ShouldCreateDnsRecord(s.props)
    THEN LET z == [id |-> "Zone", domainName |-> s.props.zoneName[1]]
         IN  [s EXCEPT !.zone = Some(z),
                       !.aRecord = Some([id |-> "SiteAliasRecord",
                                         recordName |-> s.siteName,
                                         target |-> s.distribution[1].id,
                                         zone |-> z.id])]
    ELSE s

\* The whole constructor, run on the props p.
Build(p) ==
    DnsRecord(DistributionOutputs(InvalidationPolicy(Distribution(OriginConfigs(
    LoggingBucket(AddUser(PublisherGroup(PublisherUser(OriginAccessIdentity(
    ContentBucket(BindSiteName(InitialState(p)))))))))))))

-----------------------------------------------------------------------------
(* The state machine. *)

\* The environment becomes t.
Becomes(t) ==
    /\ props' = t.props
    /\ siteName' = t.siteName
    /\ distributionCnames' = t.distributionCnames
    /\ bucket' = t.bucket
    /\ oai' = t.oai
    /\ publisherUser' = t.publisherUser
    /\ publisherGroup' = t.publisherGroup
    /\ loggingBucket' = t.loggingBucket
    /\ loggingConfig' = t.loggingConfig
    /\ originConfigs' = t.originConfigs
    /\ distribution' = t.distribution
    /\ policies' = t.policies
    /\ zone' = t.zone
    /\ aRecord' = t.aRecord
    /\ outputs' = t.outputs
    /\ grants' = t.grants

\* The environment is t.
Is(t) ==
    /\ props = t.props
    /\ siteName = t.siteName
    /\ distributionCnames = t.distributionCnames
    /\ bucket = t.bucket
    /\ oai = t.oai
    /\ publisherUser = t.publisherUser
    /\ publisherGroup = t.publisherGroup
    /\ loggingBucket = t.loggingBucket
    /\ loggingConfig = t.loggingConfig
    /\ originConfigs = t.originConfigs
    /\ distribution = t.distribution
    /\ policies = t.policies
    /\ zone = t.zone
    /\ aRecord = t.aRecord
    /\ outputs = t.outputs
    /\ grants = t.grants

Init ==
    /\ pc = "siteName"
    /\ \E p \in StaticHostingProps : Is(InitialState(p))

Successor_DistributionBeforeLogging(stmt) ==
    CASE stmt = "siteName" -> "bucket"
      [] stmt = "bucket" -> "oai"
      [] stmt = "oai" -> "publisherUser"
      [] stmt = "publisherUser" -> "publisherGroup"
      [] stmt = "publisherGroup" -> "addUser"
      [] stmt = "addUser" -> "originConfigs"
      [] stmt = "loggingBucket" -> "policy"
      [] stmt = "originConfigs" -> "distribution"
      [] stmt = "distribution" -> "loggingBucket"
      [] stmt = "policy" -> "distributionOutputs"
      [] stmt = "distributionOutputs" -> "dnsRecord"
      [] stmt = "dnsRecord" -> "done"

\* The statement that follows statement stmt in the constructor's text.
Successor(stmt) ==
    CASE stmt = "siteName" -> "bucket"
      [] stmt = "bucket" -> "oai"
      [] stmt = "oai" -> "publisherUser"
      [] stmt = "publisherUser" -> "publisherGroup"
      [] stmt = "publisherGroup" -> "addUser"
      [] stmt = "addUser" -> "loggingBucket"
      [] stmt = "loggingBucket" -> "originConfigs"
      [] stmt = "originConfigs" -> "distribution"
      [] stmt = "distribution" -> "policy"
      [] stmt = "policy" -> "distributionOutputs"
      [] stmt = "distributionOutputs" -> "dnsRecord"
      [] stmt = "dnsRecord" -> "done"

\* Statement stmt runs: the environment becomes t and control moves on.
Runs(stmt, t) == pc = stmt /\ Becomes(t) /\ pc' = Successor(stmt)

StepSiteName == Runs("siteName", BindSiteName(St))

StepContentBucket == Runs("bucket", ContentBucket(St))

StepOriginAccessIdentity == Runs("oai", OriginAccessIdentity(St))

StepPublisherUser == Runs("publisherUser", PublisherUser(St))

StepPublisherGroup == Runs("publisherGroup", PublisherGroup(St))

StepAddUser == Runs("addUser", AddUser(St))

StepLoggingBucket == Runs("loggingBucket", LoggingBucket(St))

StepOriginConfigs == Runs("originConfigs", OriginConfigs(St))

StepDistribution == Runs("distribution", Distribution(St))

StepInvalidationPolicy == Runs("policy", InvalidationPolicy(St))

StepDistributionOutputs == Runs("distributionOutputs", DistributionOutputs(St))

StepDnsRecord == Runs("dnsRecord", DnsRecord(St))

Next ==
    \/ StepSiteName
    \/ StepContentBucket
    \/ StepOriginAccessIdentity
    \/ StepPublisherUser
    \/ StepPublisherGroup
    \/ StepAddUser
    \/ StepLoggingBucket
    \/ StepOriginConfigs
    \/ StepDistribution
    \/ StepInvalidationPolicy
    \/ StepDistributionOutputs
    \/ StepDnsRecord

Spec == Init /\ [][Next]_vars

\* The constructor is straight-line code: a statement that can run does run.
FairInit ==
    /\ pc = "siteName"
    /\ \E p \in PropsWithin(MaxFairListItems) :
           p.subDomainName = "www" /\ Is(InitialState(p))

FairSpec == FairInit /\ [][Next]_vars /\ WF_vars(Next)

-----------------------------------------------------------------------------
(* What the properties below speak about. *)

Done == pc = "done"

\* The canonical site hostname of the props object.
Hostname == props.subDomainName \o "." \o props.domainName

GroupOn == TruthyFlag(props.createPublisherGroup)

UserOn == TruthyFlag(props.createPublisherUser)

LoggingOn == TruthyFlag(props.enableCloudFrontAccessLogging)

DnsOn == TruthyFlag(props.createDnsRecord) /\ TruthyString(props.zoneName)

Range(f) == {f[i] : i \in DOMAIN f}

\* The ids of the constructs declared so far.
Declared ==
    {c[1].id : c \in {x \in {bucket, oai, publisherUser, publisherGroup,
                             loggingBucket, distribution, zone, aRecord} :
                        IsDefined(x)}}
    \cup {pol.id : pol \in policies}

\* The ids of the outputs declared so far.
OutputIds == {o.id : o \in outputs}

\* Whether the construct id takes part in an output, a grant, a membership or
\* a policy attachment.
Involved(id) ==
    \/ \E o \in outputs : o.value.ref = id
    \/ \E g \in grants : g.principal = id \/ g.resource = id
    \/ IsDefined(publisherGroup) /\ id \in publisherGroup[1].users
    \/ \E pol \in policies : id \in pol.groups \cup pol.users

\* The default origin: the content bucket read through the access identity.
IsDefaultBucketOrigin(oc) ==
    /\ "s3OriginSource" \in DOMAIN oc
    /\ oc.s3OriginSource = [s3BucketSource |-> "ContentBucket",
                            originAccessIdentity |-> "OriginAccessIdentity"]

-----------------------------------------------------------------------------
(* C1: when createPublisherGroup is true the built graph holds exactly one  *)
(* invalidation policy, attached to the publisher group and to no user,     *)
(* allowing exactly create/get/list invalidation on exactly one resource,   *)
(* which names the distribution of this build and is no wildcard; when the  *)
(* flag is unset or false there is no policy.                               *)
C1_InvalidationPolicyScoped ==
    Done =>
        IF GroupOn
        THEN /\ Cardinality(policies) = 1
             /\ IsDefined(publisherGroup) /\ IsDefined(distribution)
             /\ \A pol \in policies :
                    /\ pol.groups = {publisherGroup[1].id}
                    /\ pol.users = {}
                    /\ Len(pol.statements) = 1
                    /\ pol.statements[1].effect = "ALLOW"
                    /\ Len(pol.statements[1].actions) = 3
                    /\ Range(pol.statements[1].actions) =
                           {"cloudfront:CreateInvalidation",
                            "cloudfront:GetInvalidation",
                            "cloudfront:ListInvalidations"}
                    /\ Len(pol.statements[1].resources) = 1
                    /\ pol.statements[1].resources[1].prefix =
                           "arn:aws:cloudfront::*:distribution/"
                    /\ pol.statements[1].resources[1].distributionId =
                           Attr(distribution[1].id, "distributionId")
                    /\ pol.statements[1].resources[1].distributionId.ref # "*"
        ELSE policies = {}

C1_Witness == Done /\ GroupOn /\ policies # {}

(* C2: each optional feature (user, group, logging bucket) is declared with *)
(* its output exactly when its flag is true; when the flag is unset or      *)
(* false the resource is not declared, has no output and takes part in no   *)
(* grant or membership, and with logging off the distribution has no        *)
(* logging configuration; the outputs are the three fixed ones plus one per *)
(* enabled feature.                                                         *)
C2_OptionalFeaturesGated ==
    Done =>
        /\ IsDefined(publisherUser) <=> UserOn
        /\ "PublisherUserName" \in OutputIds <=> UserOn
        /\ ~UserOn => ~Involved("PublisherUser")
        /\ IsDefined(publisherGroup) <=> GroupOn
        /\ "PublisherGroupName" \in OutputIds <=> GroupOn
        /\ ~GroupOn => ~Involved("PublisherGroup") /\ policies = {}
        /\ IsDefined(loggingBucket) <=> LoggingOn
        /\ "LoggingBucketName" \in OutputIds <=> LoggingOn
        /\ ~LoggingOn => /\ ~Involved("LoggingBucket")
                         /\ loggingConfig = undefined
                         /\ distribution[1].loggingConfig = undefined
        /\ LoggingOn => distribution[1].loggingConfig = Some([bucket |-> "LoggingBucket"])
        /\ OutputIds = {"Bucket", "DistributionId", "DistributionDomainName"}
                       \cup (IF UserOn THEN {"PublisherUserName"} ELSE {})
                       \cup (IF GroupOn THEN {"PublisherGroupName"} ELSE {})
                       \cup (IF LoggingOn THEN {"LoggingBucketName"} ELSE {})
        /\ Cardinality(outputs) = Cardinality(OutputIds)
        /\ \A o \in outputs :
               o.value = CASE o.id = "Bucket" -> Attr("ContentBucket", "bucketName")
                           [] o.id = "PublisherUserName" -> Attr("PublisherUser", "userName")
                           [] o.id = "PublisherGroupName" -> Attr("PublisherGroup", "groupName")
                           [] o.id = "LoggingBucketName" -> Attr("LoggingBucket", "bucketName")
                           [] o.id = "DistributionId" -> Attr("BucketCdn", "distributionId")
                           [] o.id = "DistributionDomainName" -> Attr("BucketCdn", "domainName")

C2_Witness ==
    /\ Done
    /\ props.createPublisherUser = Some(FALSE)
    /\ props.createPublisherGroup = undefined
    /\ LoggingOn
    /\ Cardinality(outputs) = 4

(* C3: a DNS alias record (and its zone lookup) is declared exactly when    *)
(* createDnsRecord is true and zoneName is a non-empty string; it is named  *)
(* by the hostname and targets the distribution of this build; with the     *)
(* flag true and zoneName unset or empty the build still ends, declares     *)
(* neither, and everything else it built is what createDnsRecord=false      *)
(* builds.                                                                  *)
C3_DnsRecordNeedsFlagAndZone ==
    Done =>
        /\ IsDefined(aRecord) <=> DnsOn
        /\ IsDefined(zone) <=> DnsOn
        /\ DnsOn => /\ aRecord[1].recordName = Hostname
                    /\ IsDefined(distribution)
                    /\ aRecord[1].target = distribution[1].id
                    /\ aRecord[1].zone = zone[1].id
                    /\ zone[1].domainName = props.zoneName[1]
        /\ (TruthyFlag(props.createDnsRecord) /\ ~TruthyString(props.zoneName)) =>
               LET off == [props EXCEPT !.createDnsRecord = Some(FALSE)]
               IN  [St EXCEPT !.props = off] = Build(off)

C3_Witness ==
    /\ Done
    /\ props.createDnsRecord = Some(TRUE)
    /\ props.zoneName = Some("")
    /\ aRecord = undefined

(* C4: the grants of the built graph are exactly read on the content bucket *)
(* for the access identity, read/write on it for the publisher group iff    *)
(* the group is created, and write on the logging bucket for the access     *)
(* identity alone iff logging is on; the invalidation policy sits on the    *)
(* group iff the group is created; the publisher user is granted nothing,   *)
(* and both buckets block all public access.                                *)
C4_ExactGrants ==
    Done =>
        /\ grants =
               {Grant("OriginAccessIdentity", "ContentBucket", "Read")}
               \cup (IF GroupOn
                     THEN {Grant("PublisherGroup", "ContentBucket", "ReadWrite")}
                     ELSE {})
               \cup (IF LoggingOn
                     THEN {Grant("OriginAccessIdentity", "LoggingBucket", "Write")}
                     ELSE {})
        /\ (policies # {}) <=> GroupOn
        /\ \A pol \in policies : pol.groups = {"PublisherGroup"} /\ pol.users = {}
        /\ \A g \in grants : g.principal # "PublisherUser"
        /\ \A g \in grants :
               g.resource = "LoggingBucket" => g.principal = "OriginAccessIdentity"
        /\ \A g \in grants : g.principal \in Declared
        /\ bucket[1].blockPublicAccess = "BLOCK_ALL"
        /\ IsDefined(loggingBucket) => loggingBucket[1].blockPublicAccess = "BLOCK_ALL"

C4_Witness ==
    /\ Done
    /\ UserOn /\ ~GroupOn /\ LoggingOn
    /\ Cardinality(grants) = 2

(* C5: with group and user both enabled the group's members are exactly the *)
(* one user of this build; with the group alone it has no members but still *)
(* has read/write on the content bucket and the invalidation policy; with   *)
(* the user alone there is no group and no membership.                      *)
C5_GroupMembership ==
    Done =>
        /\ (GroupOn /\ UserOn) =>
               /\ IsDefined(publisherGroup) /\ IsDefined(publisherUser)
               /\ publisherGroup[1].users = {publisherUser[1].id}
        /\ (GroupOn /\ ~UserOn) =>
               /\ IsDefined(publisherGroup)
               /\ publisherGroup[1].users = {}
               /\ Grant(publisherGroup[1].id, "ContentBucket", "ReadWrite") \in grants
               /\ \E pol \in policies : pol.groups = {publisherGroup[1].id}
        /\ (~GroupOn /\ UserOn) =>
               /\ publisherGroup = undefined
               /\ policies = {}
               /\ ~\E g \in grants : g.principal = "PublisherGroup"

C5_Witness ==
    /\ Done /\ GroupOn /\ UserOn
    /\ publisherGroup[1].users = {"PublisherUser"}

(* C6: the distribution's alias list is the hostname followed by the extra  *)
(* cnames in the caller's order when extras are supplied (an empty list     *)
(* gives the hostname alone), and the hostname alone when they are not; its *)
(* first element is the hostname, and the build declares one distribution.  *)
C6_AliasList ==
    Done =>
        /\ IsDefined(distribution)
        /\ distribution[1].id = "BucketCdn"
        /\ distribution[1].aliasConfiguration.names =
               IF IsDefined(props.extraDistributionCnames)
               THEN <<Hostname>> \o props.extraDistributionCnames[1]
               ELSE <<Hostname>>
        /\ distribution[1].aliasConfiguration.names[1] = Hostname
        /\ Hostname \in Range(distribution[1].aliasConfiguration.names)

C6_Witness ==
    /\ Done
    /\ IsDefined(props.extraDistributionCnames)
    /\ Len(props.extraDistributionCnames[1]) = 2
    /\ props.extraDistributionCnames[1][1] # props.extraDistributionCnames[1][2]
    /\ Len(distribution[1].aliasConfiguration.names) = 3

(* C7: the default origin's behavior list is the supplied list whenever the *)
(* caller supplies one, the empty list included, with no built-in behavior  *)
(* added; when none is supplied it is the one default catch-all behavior.   *)
C7_BehaviorOverride ==
    Done =>
        /\ Len(distribution[1].originConfigs) >= 1
        /\ distribution[1].originConfigs[1].behaviors =
               IF IsDefined(props.behaviors)
               THEN props.behaviors[1]
               ELSE <<[isDefaultBehavior |-> TRUE]>>

C7_Witness ==
    /\ Done
    /\ props.behaviors = Some(<<>>)
    /\ distribution[1].originConfigs[1].behaviors = <<>>

(* C8: the distribution's origin list is the default bucket origin followed *)
(* by the caller's custom origins in their order, none dropped, duplicated  *)
(* or reordered, and the default origin alone when none are supplied; the   *)
(* build never changes the caller's customOriginConfigs list.               *)
C8_OriginList ==
    /\ [](Done =>
            /\ Len(distribution[1].originConfigs) >= 1
            /\ IsDefaultBucketOrigin(distribution[1].originConfigs[1])
            /\ distribution[1].originConfigs =
                   IF IsDefined(props.customOriginConfigs)
                   THEN <<distribution[1].originConfigs[1]>>
                            \o props.customOriginConfigs[1]
                   ELSE <<distribution[1].originConfigs[1]>>)
    /\ [][props'.customOriginConfigs = props.customOriginConfigs]_vars

C8_Witness ==
    /\ Done
    /\ IsDefined(props.customOriginConfigs)
    /\ Len(props.customOriginConfigs[1]) = 2
    /\ props.customOriginConfigs[1][1] # props.customOriginConfigs[1][2]
    /\ Len(distribution[1].originConfigs) = 3

(* C9: the content bucket is named subDomainName "." domainName, and the    *)
(* same hostname is the first alias of the distribution, the DNS record's   *)
(* name, the publisher user's name after "publisher-" and the logging       *)
(* bucket's name before "-access-logs", wherever those are declared.        *)
C9_HostnameNaming ==
    /\ IsDefined(bucket) => bucket[1].bucketName = Hostname
    /\ IsDefined(distribution) =>
           distribution[1].aliasConfiguration.names[1] = Hostname
    /\ IsDefined(aRecord) => aRecord[1].recordName = Hostname
    /\ IsDefined(publisherUser) =>
           publisherUser[1].userName = "publisher-" \o Hostname
    /\ IsDefined(loggingBucket) =>
           loggingBucket[1].bucketName = Hostname \o "-access-logs"
    /\ Done => IsDefined(bucket) /\ IsDefined(distribution)

C9_Witness ==
    /\ Done
    /\ props.subDomainName = "docs"
    /\ IsDefined(aRecord) /\ IsDefined(publisherUser) /\ IsDefined(loggingBucket)
    /\ bucket[1].bucketName = "docs.example.com"

-----------------------------------------------------------------------------
(* The order of the declarations. *)

\* Every construct id that an output, a grant, a membership, a policy, an
\* origin, a logging configuration or the alias record refers to.
References ==
    {o.value.ref : o \in outputs}
    \cup {g.principal : g \in grants} \cup {g.resource : g \in grants}
    \cup (IF IsDefined(publisherGroup) THEN publisherGroup[1].users ELSE {})
    \cup UNION {pol.groups \cup pol.users : pol \in policies}
    \cup UNION {{r.distributionId.ref : r \in Range(pol.statements[1].resources)} :
                   pol \in policies}
    \cup (IF IsDefined(loggingConfig) THEN {loggingConfig[1].bucket} ELSE {})
    \cup UNION {IF "s3OriginSource" \in DOMAIN oc
                THEN {oc.s3OriginSource.s3BucketSource,
                      oc.s3OriginSource.originAccessIdentity}
                ELSE {} : oc \in Range(originConfigs)}
    \cup (IF IsDefined(distribution)
          THEN IF IsDefined(distribution[1].loggingConfig)
               THEN {distribution[1].loggingConfig[1].bucket}
               ELSE {}
          ELSE {})
    \cup (IF IsDefined(aRecord) THEN {aRecord[1].target, aRecord[1].zone} ELSE {})

NoDanglingReference == References \subseteq Declared

\* What holds of a step that declares the distribution, the policy, the
\* alias record or a membership.
DeclaredInOrder ==
    /\ (~IsDefined(distribution) /\ IsDefined(distribution')) =>
           /\ Grant("OriginAccessIdentity", "ContentBucket", "Read") \in grants
           /\ LoggingOn =>
                  /\ IsDefined(loggingBucket)
                  /\ Grant("OriginAccessIdentity", "LoggingBucket", "Write") \in grants
                  /\ distribution'[1].loggingConfig = Some([bucket |-> loggingBucket[1].id])
    /\ (policies' # policies) => IsDefined(distribution)
    /\ (~IsDefined(aRecord) /\ IsDefined(aRecord')) => IsDefined(distribution)
    /\ (IsDefined(publisherGroup') /\ publisherGroup'[1].users # {}) =>
           IsDefined(publisherGroup) /\ IsDefined(publisherUser)

(* C10: the access identity is granted read before the distribution is     *)
(* declared; the logging bucket is declared and write-granted before the   *)
(* distribution that refers to it; the policy and the alias record are     *)
(* declared only once the distribution exists; the user joins the group    *)
(* only once both exist; so no state of the build holds a reference to an  *)
(* undeclared construct, and every build reaches its end.                  *)
C10_DeclarationOrder ==
    /\ []NoDanglingReference
    /\ [][DeclaredInOrder]_vars
    /\ <>Done

C10_Witness ==
    /\ Done
    /\ GroupOn /\ UserOn /\ LoggingOn /\ DnsOn
    /\ Cardinality(Declared) = 9

====
